---- MODULE Spec2Model ----
(***************************************************************************)
(* A model of the `ni` crate: the packed base-37 identifier `Name`         *)
(* (src/src/name.rs) and its length-prefixed binary codec                  *)
(* (src/src/bincode.rs).                                                   *)
(*                                                                         *)
(* A byte is an integer in 0..255 and a byte slice is a sequence of bytes. *)
(* A u128 is a sequence of NumLimbs limbs below LimbBase, least            *)
(* significant limb first, so that the arithmetic of the encoder and the   *)
(* decoder keeps its 128-bit width: a carry out of the last limb is an     *)
(* overflow.  The codec writes to a Vec or to a slice of some capacity and  *)
(* reads from a slice, under a configuration with or without a byte limit. *)
(***************************************************************************)
EXTENDS Integers, Sequences, FiniteSets, TLC

(***************************************************************************)
(* Program constants.                                                      *)
(***************************************************************************)
MAXLEN == 24
Radix == 37
Underscore == 95
LowerA == 97
LowerZ == 122
Digit0 == 48
Digit9 == 57

(***************************************************************************)
(* Bounds of the explored inputs.                                          *)
(***************************************************************************)
MaxHead == 2
MaxRun == 24
MaxPairLen == 3

(***************************************************************************)
(* u128 arithmetic on limbs.                                               *)
(***************************************************************************)
LimbBase == 2^16
NumLimbs == 128 \div 16

U128 == [1..NumLimbs -> 0..(LimbBase - 1)]

\* A small non-negative integer (below 2^31) as a u128.
U128Of(n) ==
    [i \in 1..NumLimbs |->
        IF i = 1 THEN n % LimbBase
        ELSE IF i = 2 THEN n \div LimbBase
        ELSE 0]

U128IsZero(x) == \A i \in 1..NumLimbs : x[i] = 0

\* An intermediate result is bound as a value (CHOOSE r \in { ... : p \in
\* { e } } : TRUE) before it is used again, here and below.

\* The carries of x * k, limb by limb: c[i + 1] is the carry out of limb i.
RECURSIVE MulCarries(_, _, _)
MulCarries(x, k, i) ==
    IF i = 0 THEN << 0 >>
    ELSE CHOOSE r \in
            { Append(p, (x[i] * k + p[i]) \div LimbBase)
              : p \in { MulCarries(x, k, i - 1) } } : TRUE

\* x * k for a small k: the low 128 bits, and whether the product overflowed.
U128MulSmall(x, k) ==
    CHOOSE r \in
        { [val |-> [i \in 1..NumLimbs |-> (x[i] * k + c[i]) % LimbBase],
           ovf |-> c[NumLimbs + 1] # 0]
          : c \in { MulCarries(x, k, NumLimbs) } } : TRUE

\* The carries of x + y.
RECURSIVE AddCarries(_, _, _)
AddCarries(x, y, i) ==
    IF i = 0 THEN << 0 >>
    ELSE CHOOSE r \in
            { Append(p, (x[i] + y[i] + p[i]) \div LimbBase)
              : p \in { AddCarries(x, y, i - 1) } } : TRUE

\* x + y: the low 128 bits, and whether the sum overflowed.
U128Add(x, y) ==
    CHOOSE r \in
        { [val |-> [i \in 1..NumLimbs |-> (x[i] + y[i] + c[i]) % LimbBase],
           ovf |-> c[NumLimbs + 1] # 0]
          : c \in { AddCarries(x, y, NumLimbs) } } : TRUE

\* The remainders of the long division of x by k, from the most significant
\* limb down: r[j + 1] is the remainder after the j most significant limbs.
RECURSIVE DivRems(_, _, _)
DivRems(x, k, j) ==
    IF j = 0 THEN << 0 >>
    ELSE CHOOSE r \in
            { Append(p, (p[j] * LimbBase + x[NumLimbs - j + 1]) % k)
              : p \in { DivRems(x, k, j - 1) } } : TRUE

\* x / k and x % k for a small positive k.
U128DivMod(x, k) ==
    CHOOSE r \in
        { [quot |-> [i \in 1..NumLimbs |->
                        (rs[NumLimbs - i + 1] * LimbBase + x[i]) \div k],
           rem  |-> rs[NumLimbs + 1]]
          : rs \in { DivRems(x, k, NumLimbs) } } : TRUE

\* x < y, the numeric order of two u128 values.
U128Less(x, y) ==
    \E i \in 1..NumLimbs :
        /\ x[i] < y[i]
        /\ \A j \in (i + 1)..NumLimbs : x[j] = y[j]

U128Zero == U128Of(0)

(***************************************************************************)
(* Error: the name creation error and its message.                         *)
(***************************************************************************)
Errors == {"Empty", "TooLong", "LeadingUnderscore", "InvalidChar"}

\* Error::as_str.  The backquotes around _ in the third message are written
\* as single quotes here.
ErrorAsStr(e) ==
    CASE e = "Empty" -> "the name is empty"
      [] e = "TooLong" -> "the name is too long"
      [] e = "LeadingUnderscore" -> "the name starts with '_'"
      [] e = "InvalidChar" -> "the name contains an invalid char"

(***************************************************************************)
(* Name::encode.                                                           *)
(***************************************************************************)
\* The bytes the match of the fold loop accepts.
InAlphabet(b) ==
    \/ b = Underscore
    \/ (LowerA <= b /\ b <= LowerZ)
    \/ (Digit0 <= b /\ b <= Digit9)

\* EncodeDigit with the letters numbered from 0 (n - b'a').
EncodeDigitFromZero(b) ==
    IF b = Underscore THEN 0
    ELSE IF LowerA <= b /\ b <= LowerZ THEN b - LowerA
    ELSE b - Digit0 + 27

\* The digit the match of the fold loop gives an accepted byte.
EncodeDigit(b) ==
    IF b = Underscore THEN 0
    ELSE IF LowerA <= b /\ b <= LowerZ THEN b - LowerA + 1
    ELSE b - Digit0 + 27

\* The results of encode: Ok(Name(val)) or Err(err).  mul and ovf record the
\* multiplier the loop ended with and whether any of its additions or
\* multiplications overflowed 128 bits (a panic in a build with overflow
\* checks, a wrapped value in a build without them).  An Ok whose val is
\* zero is where NonZeroU128::new_unchecked would be undefined behaviour.
EncodeErr(e) ==
    [kind |-> "Err", err |-> e, val |-> U128Zero, mul |-> U128Zero, ovf |-> FALSE]

EncodeOk(sum, mul, ovf) ==
    [kind |-> "Ok", err |-> "", val |-> sum, mul |-> mul, ovf |-> ovf]

\* FoldStep with the place value multiplied by 36 (letters and digits only).
FoldStepRadix36(u, mul, sum) ==
    LET prod == U128MulSmall(mul, u)
        acc  == U128Add(sum, prod.val)
        next == U128MulSmall(mul, Radix - 1)
    IN  [sum |-> acc.val, mul |-> next.val,
         ovf |-> prod.ovf \/ acc.ovf \/ next.ovf]

\* FoldStep with sum and mul of 64 bits: a value that needs more overflows.
FoldStepU64(u, mul, sum) ==
    LET prod == U128MulSmall(mul, u)
        acc  == U128Add(sum, prod.val)
        next == U128MulSmall(mul, Radix)
        wide(x) == \E i \in ((NumLimbs \div 2) + 1)..NumLimbs : x[i] # 0
    IN  [sum |-> acc.val, mul |-> next.val,
         ovf |-> prod.ovf \/ acc.ovf \/ next.ovf
                 \/ wide(prod.val) \/ wide(acc.val) \/ wide(next.val)]

\* One iteration of the fold: sum += u * mul; mul *= 37.
FoldStep(u, mul, sum) ==
    LET prod == U128MulSmall(mul, u)
        acc  == U128Add(sum, prod.val)
        next == U128MulSmall(mul, Radix)
    IN  [sum |-> acc.val, mul |-> next.val,
         ovf |-> prod.ovf \/ acc.ovf \/ next.ovf]

\* The fold loop from position idx (0-based) down to 0.  The state of an
\* iteration is bound as a value (st) before the next iteration uses it.
RECURSIVE EncodeLoop(_, _, _, _, _)
EncodeLoop(s, idx, mul, sum, ovf) ==
    IF ~InAlphabet(s[idx + 1])
    THEN [EncodeErr("InvalidChar") EXCEPT !.ovf = ovf]
    ELSE CHOOSE r \in
            { IF idx = 0
              THEN EncodeOk(st.sum, st.mul, ovf \/ st.ovf)
              ELSE EncodeLoop(s, idx - 1, st.mul, st.sum, ovf \/ st.ovf)
              : st \in { FoldStep(EncodeDigit(s[idx + 1]), mul, sum) } } : TRUE

\* Encode with the leading underscore looked for before the length.
EncodeUnderscoreFirst(s) ==
    IF Len(s) = 0 THEN EncodeErr("Empty")
    ELSE IF s[1] = Underscore THEN EncodeErr("LeadingUnderscore")
    ELSE IF Len(s) > MAXLEN THEN EncodeErr("TooLong")
    ELSE EncodeLoop(s, Len(s) - 1, U128Of(1), U128Zero, FALSE)

\* Encode with no check of the first byte.
EncodeNoUnderscoreCheck(s) ==
    IF Len(s) = 0 THEN EncodeErr("Empty")
    ELSE IF Len(s) > MAXLEN THEN EncodeErr("TooLong")
    ELSE EncodeLoop(s, Len(s) - 1, U128Of(1), U128Zero, FALSE)

Encode(s) ==
    IF Len(s) = 0 THEN EncodeErr("Empty")
    ELSE IF Len(s) > MAXLEN THEN EncodeErr("TooLong")
    ELSE IF s[1] = Underscore THEN EncodeErr("LeadingUnderscore")
    ELSE EncodeLoop(s, Len(s) - 1, U128Of(1), U128Zero, FALSE)

(***************************************************************************)
(* Name::encode_char.  A char is its code point.                           *)
(***************************************************************************)
ToLeBytes(c) ==
    << c % 256, (c \div 256) % 256, (c \div 65536) % 256, (c \div 16777216) % 256 >>

\* EncodeChar on the low byte alone.
EncodeCharLowByte(c) == Encode(<< ToLeBytes(c)[1] >>)

EncodeChar(c) ==
    LET bytes == ToLeBytes(c)
    IN  IF bytes[2] = 0 /\ bytes[3] = 0 /\ bytes[4] = 0
        THEN Encode(<< bytes[1] >>)
        ELSE EncodeErr("InvalidChar")

(***************************************************************************)
(* Name::decode, DecodedName::as_slice, Name::len.                         *)
(***************************************************************************)
\* DecodeDigit with the letters shifted by one (n + b'a').
DecodeDigitShifted(n) ==
    IF n = 0 THEN Underscore
    ELSE IF 1 <= n /\ n < 27 THEN n + LowerA
    ELSE IF 27 <= n /\ n < 37 THEN n + Digit0 - 27
    ELSE -1

\* The byte the match of the decode loop gives a remainder; -1 stands for
\* the unreachable!() arm.
DecodeDigit(n) ==
    IF n = 0 THEN Underscore
    ELSE IF 1 <= n /\ n < 27 THEN n + LowerA - 1
    ELSE IF 27 <= n /\ n < 37 THEN n + Digit0 - 27
    ELSE -1

\* The decode loop from cursor idx (0-based).  The result is the DecodedName
\* {buf, idx}, with the value left in num when the loop broke, the number
\* of iterations it ran and whether it took the unreachable!() arm.
\* DecodeLoop that breaks at the front of the buffer only.
RECURSIVE DecodeLoopToFront(_, _, _, _, _)
DecodeLoopToFront(num, buf, idx, iters, unreach) ==
    CHOOSE r \in
        { LET byte == DecodeDigit(dm.rem % 256)
              buf2 == [buf EXCEPT ![idx + 1] = byte]
              bad  == unreach \/ byte = -1
          IN  IF idx = 0
              THEN [buf |-> buf2, idx |-> idx, num |-> dm.quot,
                    iters |-> iters + 1, unreachable |-> bad]
              ELSE DecodeLoopToFront(dm.quot, buf2, idx - 1, iters + 1, bad)
          : dm \in { U128DivMod(num, Radix) } } : TRUE

RECURSIVE DecodeLoop(_, _, _, _, _)
DecodeLoop(num, buf, idx, iters, unreach) ==
    CHOOSE r \in
        { LET byte == DecodeDigit(dm.rem % 256)
              buf2 == [buf EXCEPT ![idx + 1] = byte]
              bad  == unreach \/ byte = -1
          IN  IF U128IsZero(dm.quot) \/ idx = 0
              THEN [buf |-> buf2, idx |-> idx, num |-> dm.quot,
                    iters |-> iters + 1, unreachable |-> bad]
              ELSE DecodeLoop(dm.quot, buf2, idx - 1, iters + 1, bad)
          : dm \in { U128DivMod(num, Radix) } } : TRUE

Decode(num) ==
    CHOOSE r \in
        { DecodeLoop(n, [i \in 1..MAXLEN |-> 0], MAXLEN - 1, 0, FALSE)
          : n \in { num } } : TRUE

AsSlice(d) == SubSeq(d.buf, d.idx + 1, MAXLEN)

\* u128::ilog(num, 37) for num > 0.
RECURSIVE Ilog(_, _)
Ilog(num, base) ==
    IF U128Less(num, U128Of(base)) THEN 0
    ELSE CHOOSE r \in
            { 1 + Ilog(q, base) : q \in { U128DivMod(num, base).quot } } : TRUE

NameLen(num) == CHOOSE r \in { Ilog(n, Radix) + 1 : n \in { num } } : TRUE

(***************************************************************************)
(* The derived Ord of Name: the order of InnerU128(NonZeroU128), then of   *)
(* the empty array [u64; 0], which is always Equal.                        *)
(***************************************************************************)
\* s < t in the order of byte slices (and of str): byte by byte, a proper
\* prefix first.
SliceLess(s, t) ==
    \/ /\ Len(s) < Len(t)
       /\ SubSeq(t, 1, Len(s)) = s
    \/ \E i \in 1..Len(s) :
          /\ i <= Len(t)
          /\ SubSeq(s, 1, i - 1) = SubSeq(t, 1, i - 1)
          /\ s[i] < t[i]

\* NameCmp as the order of the decoded strings.
NameCmpByString(x, y) ==
    CHOOSE r \in
        { IF SliceLess(a, b) THEN "Less"
          ELSE IF SliceLess(b, a) THEN "Greater"
          ELSE "Equal"
          : a \in { AsSlice(Decode(x)) }, b \in { AsSlice(Decode(y)) } } : TRUE

NameCmp(x, y) ==
    IF U128Less(x, y) THEN "Less"
    ELSE IF U128Less(y, x) THEN "Greater"
    ELSE "Equal"

(***************************************************************************)
(* The binary codec (bincode): impl Encode for Name and impl Decode for    *)
(* Name.  The writer is a Vec, or a slice of some capacity; the reader is  *)
(* a byte slice, and a result carries the number of bytes the reader has   *)
(* consumed.  A capacity and a byte limit are << >> (none) or << n >>.     *)
(***************************************************************************)
\* n bytes are within the bound, or there is no bound.
Fits(bound, n) == bound = << >> \/ n <= bound[1]

\* The results of the binary Encode, with the bytes the writer has taken.
WriteErr(e, out) == [kind |-> "Err", err |-> e, out |-> out]

WriteOk(out) == [kind |-> "Ok", err |-> "", out |-> out]

\* BincodeEncode that writes the whole buffer of the DecodedName.
BincodeEncodeWholeBuf(val, cap) ==
    CHOOSE r \in
        { IF ~Fits(cap, 1) THEN WriteErr("UnexpectedEnd", << >>)
          ELSE IF ~Fits(cap, 1 + Len(d.buf))
               THEN WriteErr("UnexpectedEnd", << NameLen(val) % 256 >>)
          ELSE WriteOk(<< NameLen(val) % 256 >> \o d.buf)
          : d \in { Decode(val) } } : TRUE

\* (self.len() as u8).encode(encoder)?, then writer().write(as_slice).  A
\* write that does not fit what is left of a slice fails with UnexpectedEnd
\* and writes nothing; a Vec takes every write.
BincodeEncode(val, cap) ==
    CHOOSE r \in
        { IF ~Fits(cap, 1) THEN WriteErr("UnexpectedEnd", << >>)
          ELSE IF ~Fits(cap, 1 + Len(body))
               THEN WriteErr("UnexpectedEnd", << NameLen(val) % 256 >>)
          ELSE WriteOk(<< NameLen(val) % 256 >> \o body)
          : body \in { AsSlice(Decode(val)) } } : TRUE

DecodeErr(msg, pos) ==
    [kind |-> "Err", err |-> msg, val |-> U128Zero, pos |-> pos]

DecodeOk(val, pos) ==
    [kind |-> "Ok", err |-> "", val |-> val, pos |-> pos]

\* BincodeDecode that reads the bytes before it looks at the length.
BincodeDecodeNoGate(data, limit) ==
    IF ~Fits(limit, 1) THEN DecodeErr("LimitExceeded", 0)
    ELSE IF Len(data) = 0 THEN DecodeErr("UnexpectedEnd", 0)
    ELSE LET len == data[1]
         IN  IF ~Fits(limit, 1 + len) THEN DecodeErr("LimitExceeded", 1)
             ELSE IF Len(data) - 1 < len THEN DecodeErr("UnexpectedEnd", 1)
             ELSE CHOOSE r \in
                    { IF e.kind = "Ok"
                      THEN DecodeOk(e.val, 1 + len)
                      ELSE DecodeErr(ErrorAsStr(e.err), 1 + len)
                      : e \in { Encode(SubSeq(data, 2, 1 + len)) } } : TRUE

\* u8::decode claims one byte of the limit (LimitExceeded when the limit is
\* passed) and reads it; claim_container_read::<u8>(len) claims len more;
\* buf.get_mut(..len) is None when len exceeds MAXLEN; reader().read(buf)
\* takes exactly len bytes or fails without consuming; the bytes then go
\* through Name::encode.
BincodeDecode(data, limit) ==
    IF ~Fits(limit, 1) THEN DecodeErr("LimitExceeded", 0)
    ELSE IF Len(data) = 0 THEN DecodeErr("UnexpectedEnd", 0)
    ELSE LET len == data[1]
         IN  IF ~Fits(limit, 1 + len) THEN DecodeErr("LimitExceeded", 1)
             ELSE IF len > MAXLEN THEN DecodeErr(ErrorAsStr("TooLong"), 1)
             ELSE IF Len(data) - 1 < len THEN DecodeErr("UnexpectedEnd", 1)
             ELSE CHOOSE r \in
                    { IF e.kind = "Ok"
                      THEN DecodeOk(e.val, 1 + len)
                      ELSE DecodeErr(ErrorAsStr(e.err), 1 + len)
                      : e \in { Encode(SubSeq(data, 2, 1 + len)) } } : TRUE

(***************************************************************************)
(* The explored inputs.                                                    *)
(***************************************************************************)
Bytes == 0..255

\* k copies of the byte b.
Run(b, k) == [i \in 1..k |-> b]

SeqsUpTo(S, n) == UNION { [1..k -> S] : k \in 0..n }

\* Bytes of both ends of the alphabet, and one outside it ('A').
SampleBytes == { Underscore, LowerA, Digit9, 65 }

\* Candidate slices: every single byte, and a short head, a run of one byte
\* and at most one more byte, up to lengths beyond MAXLEN.
Inputs ==
    { << b >> : b \in Bytes }
    \cup { h \o Run(f, k) \o t :
             h \in SeqsUpTo(SampleBytes, MaxHead),
             f \in { Underscore, Digit9 },
             k \in 0..MaxRun,
             t \in SeqsUpTo(SampleBytes, 1) }

\* Candidate chars (code points): U+0000..U+00FF, and chars of two, three
\* and four bytes, some of them with a low byte in the alphabet.
Chars == (0..255) \cup { 256, 353, 1102, 24832, 65633, 1114111 }

\* Bytes that follow a name on the wire.
Trailers == { << >>, << LowerA >>, << 255, Digit9 >> }

\* Byte streams handed to the binary Decode that no Encode wrote.
Wires ==
    { << >> }
    \cup { << n >> \o Run(f, k) :
             n \in { 0, 1, 2, MAXLEN, MAXLEN + 1, MAXLEN + 2, 255 },
             f \in { Underscore, LowerA, 65 },
             k \in 0..(MaxRun + 2) }

\* Capacities of the writer: a Vec, and slices with no room, with room for
\* the shorter names only, and with room for every name.
Capacities == { << >>, << 0 >>, << 16 >>, << MAXLEN + 1 >> }

\* Byte limits of the decoder: none, and limits that stop the length byte,
\* the longer names, and declared lengths beyond MAXLEN + 1.
Limits == { << >>, << 0 >>, << 16 >>, << MAXLEN + 2 >> }

\* Candidate slices for a pair of names.
PairInputs ==
    (SeqsUpTo({ Underscore, LowerA, Digit9 }, MaxPairLen) \ { << >> })
    \cup { Run(f, k) : f \in { LowerA, Digit9 }, k \in 1..MaxRun }
    \cup { << LowerA >> \o Run(Underscore, k) : k \in 1..(MaxRun - 1) }
    \cup { << LowerZ >>, << Digit0 >>, << LowerZ, Digit0 >>, << Digit0, LowerZ >> }

(***************************************************************************)
(* The state: the last call and what it returned.                          *)
(***************************************************************************)
VARIABLES
    pc,     \* what has been called last
    src,    \* the slice given to Name::encode
    ch,     \* the char given to Name::encode_char
    res,    \* the Result of Name::encode or Name::encode_char
    view,   \* the DecodedName of Name::decode
    nlen,   \* the value of Name::len
    cap,    \* the capacity of the writer of the binary Encode
    wr,     \* the Result of the binary Encode
    wire,   \* the bytes the binary Encode wrote, and what follows them
    limit,  \* the byte limit of the decoder of the binary Decode
    rd,     \* the Result of the binary Decode
    src2,   \* the slice of a second name
    res2,   \* the Result of Name::encode for the second name
    ord     \* the Ordering of the first name against the second

vars == << pc, src, ch, res, view, nlen, cap, wr, wire, limit, rd, src2, res2, ord >>

NoResult == [kind |-> "None", err |-> "", val |-> U128Zero, mul |-> U128Zero, ovf |-> FALSE]
NoView == [buf |-> Run(0, MAXLEN), idx |-> 0, num |-> U128Zero, iters |-> 0, unreachable |-> FALSE]
NoWrite == [kind |-> "None", err |-> "", out |-> << >>]
NoRead == [kind |-> "None", err |-> "", val |-> U128Zero, pos |-> 0]

Init ==
    /\ pc = "idle"
    /\ src = << >>
    /\ ch = 0
    /\ res = NoResult
    /\ view = NoView
    /\ nlen = 0
    /\ cap = << >>
    /\ wr = NoWrite
    /\ wire = << >>
    /\ limit = << >>
    /\ rd = NoRead
    /\ src2 = << >>
    /\ res2 = NoResult
    /\ ord = "None"

\* Name::encode(s), also TryFrom<&[u8]> and TryFrom<&str>.
CallEncode ==
    /\ pc = "idle"
    /\ \E s \in Inputs :
         /\ src' = s
         /\ res' = Encode(s)
    /\ pc' = "encoded"
    /\ UNCHANGED << ch, view, nlen, cap, wr, wire, limit, rd, src2, res2, ord >>

\* Name::encode_char(c).
CallEncodeChar ==
    /\ pc = "idle"
    /\ \E c \in Chars :
         /\ ch' = c
         /\ res' = EncodeChar(c)
    /\ pc' = "encoded_char"
    /\ UNCHANGED << src, view, nlen, cap, wr, wire, limit, rd, src2, res2, ord >>

\* name.decode() and name.len() on the name an encode returned.
CallDecode ==
    /\ pc \in { "encoded", "encoded_char" }
    /\ res.kind = "Ok"
    /\ view' = Decode(res.val)
    /\ nlen' = NameLen(res.val)
    /\ pc' = IF pc = "encoded" THEN "decoded" ELSE "decoded_char"
    /\ UNCHANGED << src, ch, res, cap, wr, wire, limit, rd, src2, res2, ord >>

\* bincode::encode of the name into a writer; when it succeeds other data
\* may follow the name on the wire.
CallBincodeEncode ==
    /\ pc = "decoded"
    /\ \E c \in Capacities, t \in Trailers :
         /\ cap' = c
         /\ wr' = BincodeEncode(res.val, c)
         /\ wire' = IF wr'.kind = "Ok" THEN wr'.out \o t ELSE wr'.out
    /\ pc' = "written"
    /\ UNCHANGED << src, ch, res, view, nlen, limit, rd, src2, res2, ord >>

\* Bytes from elsewhere arrive for bincode::decode.
Receive ==
    /\ pc = "idle"
    /\ \E w \in Wires : wire' = w
    /\ pc' = "received"
    /\ UNCHANGED << src, ch, res, view, nlen, cap, wr, limit, rd, src2, res2, ord >>

\* bincode::decode of a Name from the wire.
CallBincodeDecode ==
    /\ pc \in { "written", "received" }
    /\ \E l \in Limits :
         /\ limit' = l
         /\ rd' = BincodeDecode(wire, l)
    /\ pc' = IF pc = "written" THEN "read_back" ELSE "read"
    /\ UNCHANGED << src, ch, res, view, nlen, cap, wr, wire, src2, res2, ord >>

Next ==
    \/ CallEncode
    \/ CallEncodeChar
    \/ CallDecode
    \/ CallBincodeEncode
    \/ Receive
    \/ CallBincodeDecode

Spec == Init /\ [][Next]_vars

\* Name::encode of the first slice of a pair.
CallEncodeFirst ==
    /\ pc = "idle"
    /\ \E s \in PairInputs :
         /\ src' = s
         /\ res' = Encode(s)
    /\ pc' = "first"
    /\ UNCHANGED << ch, view, nlen, cap, wr, wire, limit, rd, src2, res2, ord >>

\* Name::encode of the second slice of a pair.
CallEncodeSecond ==
    /\ pc = "first"
    /\ \E s \in PairInputs :
         /\ src2' = s
         /\ res2' = Encode(s)
    /\ pc' = "pair"
    /\ UNCHANGED << src, ch, res, view, nlen, cap, wr, wire, limit, rd, ord >>

\* name.cmp(&other) on the two names, when both slices were encoded.
CallCompare ==
    /\ pc = "pair"
    /\ res.kind = "Ok"
    /\ res2.kind = "Ok"
    /\ ord' = NameCmp(res.val, res2.val)
    /\ pc' = "compared"
    /\ UNCHANGED << src, ch, res, view, nlen, cap, wr, wire, limit, rd, src2, res2 >>

NextPair ==
    \/ CallEncodeFirst
    \/ CallEncodeSecond
    \/ CallCompare

SpecPair == Init /\ [][NextPair]_vars

(***************************************************************************)
(* The properties.                                                         *)
(***************************************************************************)
\* The 37 symbols of a name.
NameAlphabet == { Underscore } \cup (LowerA..LowerZ) \cup (Digit0..Digit9)

\* The naming invariants of a byte sequence.
SatisfiesInvariants(s) ==
    /\ Len(s) >= 1
    /\ Len(s) <= MAXLEN
    /\ \A i \in 1..Len(s) : s[i] \in NameAlphabet
    /\ s[1] # Underscore

\* 37^n as a u128, for n up to MAXLEN.
RECURSIVE Pow37(_)
Pow37(n) ==
    IF n = 0 THEN U128Of(1)
    ELSE CHOOSE r \in { U128MulSmall(p, Radix).val : p \in { Pow37(n - 1) } } : TRUE

U128LessEq(x, y) == x = y \/ U128Less(x, y)

\* The states in which name.decode() and name.len() of the encoded slice
\* are at hand.
SliceDecoded == pc \in { "decoded", "written", "read_back" }

\* C1: a byte sequence that satisfies the naming invariants is encoded with
\* success, the decoded view of the name exposes exactly its bytes, and the
\* length of the name is its length.
C1_RoundTrip ==
    (pc \in { "encoded", "decoded", "written", "read_back" }
        /\ SatisfiesInvariants(src))
    => /\ res.kind = "Ok"
       /\ SliceDecoded => (AsSlice(view) = src /\ nlen = Len(src))

C1_Witness ==
    /\ pc = "decoded"
    /\ SatisfiesInvariants(src)
    /\ Len(src) = MAXLEN
    /\ \E i \in 1..Len(src) : src[i] = Underscore
    /\ AsSlice(view) = src
    /\ nlen = MAXLEN

\* The outcome the validation order gives a byte sequence: the first
\* failure of Empty, TooLong, LeadingUnderscore, InvalidChar, or Ok.
FirstFailure(s) ==
    IF Len(s) = 0 THEN "Empty"
    ELSE IF Len(s) > MAXLEN THEN "TooLong"
    ELSE IF s[1] = Underscore THEN "LeadingUnderscore"
    ELSE IF \E i \in 1..Len(s) : s[i] \notin NameAlphabet THEN "InvalidChar"
    ELSE "Ok"

Outcome(r) == IF r.kind = "Err" THEN r.err ELSE r.kind

\* C2: encode classifies every byte sequence by the first failure in the
\* order Empty, TooLong, LeadingUnderscore, InvalidChar, and returns Ok in
\* exactly the remaining case.
C2_ValidationOrder ==
    pc = "encoded" =>
        /\ Outcome(res) \in Errors \cup { "Ok" }
        /\ Outcome(res) = "Empty" <=> Len(src) = 0
        /\ Outcome(res) = "TooLong" <=> Len(src) > MAXLEN
        /\ Outcome(res) = "LeadingUnderscore" <=>
              (Len(src) >= 1 /\ Len(src) <= MAXLEN /\ src[1] = Underscore)
        /\ Outcome(res) = "InvalidChar" <=>
              (/\ Len(src) >= 1
               /\ Len(src) <= MAXLEN
               /\ src[1] # Underscore
               /\ \E i \in 1..Len(src) : src[i] \notin NameAlphabet)
        /\ Outcome(res) = "Ok" <=> SatisfiesInvariants(src)
        /\ Outcome(res) = FirstFailure(src)

C2_Witness ==
    /\ pc = "encoded"
    /\ Len(src) > MAXLEN
    /\ \E i \in 1..Len(src) : src[i] \notin NameAlphabet
    /\ src[1] = Underscore
    /\ res.kind = "Err"
    /\ res.err = "TooLong"

\* s is a proper suffix of t.
ProperSuffix(s, t) ==
    /\ Len(s) < Len(t)
    /\ SubSeq(t, Len(t) - Len(s) + 1, Len(t)) = s

\* C3: two distinct byte sequences that satisfy the naming invariants are
\* encoded to different values.
C3_Uniqueness ==
    (pc = "pair"
        /\ SatisfiesInvariants(src)
        /\ SatisfiesInvariants(src2)
        /\ src # src2)
    => /\ res.kind = "Ok"
       /\ res2.kind = "Ok"
       /\ res.val # res2.val

C3_Witness ==
    /\ pc = "pair"
    /\ SatisfiesInvariants(src)
    /\ SatisfiesInvariants(src2)
    /\ ProperSuffix(src, src2)
    /\ Len(src2) = MAXLEN
    /\ res.kind = "Ok"
    /\ res2.kind = "Ok"
    /\ res.val # res2.val

\* The length of the input of the last encode or encode_char.
InputLen == IF pc = "encoded_char" THEN 1 ELSE Len(src)

\* C4: a value that encode returns as Ok is strictly positive: for an
\* input of length L it lies in [37^(L-1), 37^L - 1], hence below 37^24.
C4_Positive ==
    (pc \in { "encoded", "encoded_char" } /\ res.kind = "Ok")
    => /\ ~U128IsZero(res.val)
       /\ InputLen \in 1..MAXLEN
       /\ U128LessEq(Pow37(InputLen - 1), res.val)
       /\ U128Less(res.val, Pow37(InputLen))
       /\ U128Less(res.val, Pow37(MAXLEN))

C4_Witness ==
    /\ pc = "encoded"
    /\ res.kind = "Ok"
    /\ Len(src) = MAXLEN
    /\ res.val = Pow37(MAXLEN - 1)

\* C5 as stated: encode of '_' followed by any byte sequence at all fails
\* with LeadingUnderscore.
C5_AnyLength ==
    (pc = "encoded" /\ Len(src) >= 1 /\ src[1] = Underscore)
    => (res.kind = "Err" /\ res.err = "LeadingUnderscore")

\* C5, amended: encode of '_' followed by at most 23 bytes of any content
\* fails with LeadingUnderscore; followed by 24 bytes or more it fails with
\* TooLong.
C5_UpToMaxLen ==
    (pc = "encoded" /\ Len(src) >= 1 /\ src[1] = Underscore)
    => /\ res.kind = "Err"
       /\ res.err = IF Len(src) <= MAXLEN THEN "LeadingUnderscore" ELSE "TooLong"

C5_Witness ==
    /\ pc = "encoded"
    /\ Len(src) = MAXLEN
    /\ src[1] = Underscore
    /\ src[Len(src)] \notin NameAlphabet
    /\ res.kind = "Err"
    /\ res.err = "LeadingUnderscore"

\* The states in which encode_char has returned.
CharEncoded == pc \in { "encoded_char", "decoded_char" }

\* C6: for a char whose single byte is in the alphabet, encode_char returns
\* what encode returns on that one byte (Ok with length 1 for a letter or a
\* digit); for every other char it returns InvalidChar.
C6_EncodeChar ==
    CharEncoded =>
        IF ch \in NameAlphabet
        THEN /\ res = Encode(<< ch >>)
             /\ ch # Underscore => res.kind = "Ok"
             /\ pc = "decoded_char" => (nlen = 1 /\ AsSlice(view) = << ch >>)
        ELSE res.kind = "Err" /\ res.err = "InvalidChar"

C6_Witness ==
    /\ pc = "encoded_char"
    /\ ch > 255
    /\ (ch % 256) \in NameAlphabet
    /\ res.kind = "Err"
    /\ res.err = "InvalidChar"

\* There is no bound, or the bound is at least n.
AtLeast(bound, n) == Len(bound) = 0 \/ bound[1] >= n

\* C7 as stated: the binary Encode of a name writes one byte equal to its
\* length and then exactly the bytes of its decoded view, and the binary
\* Decode of those bytes returns the same name and consumes its length plus
\* one bytes, whatever follows on the wire.
C7_BincodeRoundTrip ==
    /\ pc \in { "written", "read_back" } =>
          /\ Len(wire) >= 1 + nlen
          /\ wire[1] = nlen
          /\ SubSeq(wire, 2, 1 + nlen) = AsSlice(view)
          /\ SubSeq(wire, 2 + nlen, Len(wire)) \in Trailers
    /\ pc = "read_back" =>
          /\ rd.kind = "Ok"
          /\ rd.val = res.val
          /\ rd.pos = nlen + 1

\* C7, amended: when the writer has room for the length of the name plus
\* one bytes, the binary Encode writes one byte equal to the length and then
\* exactly the bytes of the decoded view; otherwise it fails with
\* UnexpectedEnd after writing the length byte at most.  The binary Decode
\* of the written bytes returns the same name and consumes its length plus
\* one bytes, whatever follows on the wire, when the decoder has no byte
\* limit or a limit of at least the length plus one; otherwise it fails
\* with LimitExceeded and reads the length byte at most.
C7_RoundTripWithinBounds ==
    /\ pc \in { "written", "read_back" } =>
          IF AtLeast(cap, nlen + 1)
          THEN /\ wr.kind = "Ok"
               /\ wr.out = << nlen >> \o AsSlice(view)
               /\ Len(wr.out) = nlen + 1
               /\ \E t \in Trailers : wire = wr.out \o t
          ELSE /\ wr.kind = "Err"
               /\ wr.err = "UnexpectedEnd"
               /\ wr.out = IF AtLeast(cap, 1) THEN << nlen >> ELSE << >>
               /\ wire = wr.out
    /\ (pc = "read_back" /\ wr.kind = "Ok") =>
          IF AtLeast(limit, nlen + 1)
          THEN /\ rd.kind = "Ok"
               /\ rd.val = res.val
               /\ rd.pos = nlen + 1
          ELSE /\ rd.kind = "Err"
               /\ rd.err = "LimitExceeded"
               /\ rd.pos = IF AtLeast(limit, 1) THEN 1 ELSE 0

C7_Witness ==
    /\ pc = "read_back"
    /\ cap = << nlen + 1 >>
    /\ limit = << nlen + 1 >>
    /\ wr.kind = "Ok"
    /\ Len(wire) > nlen + 1
    /\ rd.kind = "Ok"
    /\ rd.val = res.val
    /\ rd.pos = nlen + 1

\* C8 as stated: when the length byte the binary Decode reads exceeds 24,
\* it fails with the TooLong message and has consumed the length byte
\* alone, however many bytes follow.
C8_LengthGate ==
    (pc \in { "read", "read_back" } /\ Len(wire) >= 1 /\ wire[1] > MAXLEN)
    => /\ rd.kind = "Err"
       /\ rd.err = "the name is too long"
       /\ rd.pos = 1

\* C8, amended: when the first byte of the input, the declared length,
\* exceeds 24, the binary Decode fails without reading any byte after it,
\* however many bytes follow: with the TooLong message when the decoder has
\* no byte limit or a limit of at least the declared length plus one, and
\* with LimitExceeded when its limit is below that.
C8_LengthGateOrLimit ==
    (pc \in { "read", "read_back" } /\ Len(wire) >= 1 /\ wire[1] > MAXLEN)
    => /\ rd.kind = "Err"
       /\ rd.pos <= 1
       /\ IF AtLeast(limit, wire[1] + 1)
          THEN rd.err = "the name is too long" /\ rd.pos = 1
          ELSE /\ rd.err = "LimitExceeded"
               /\ rd.pos = IF AtLeast(limit, 1) THEN 1 ELSE 0

C8_Witness ==
    /\ pc = "read"
    /\ limit = << MAXLEN + 2 >>
    /\ Len(wire) > MAXLEN + 2
    /\ wire[1] = MAXLEN + 1
    /\ \A i \in 2..Len(wire) : wire[i] \in NameAlphabet
    /\ rd.kind = "Err"
    /\ rd.err = "the name is too long"
    /\ rd.pos = 1

\* The states in which name.decode() of an encoded name is at hand.
AnyDecoded == pc \in { "decoded", "decoded_char", "written", "read_back" }

\* C9: the decode loop of a name runs at most 24 iterations and leaves with
\* the value at zero; the cursor stays in [0, 23], the unreachable arm is
\* not taken, every exposed byte is in the alphabet and the first exposed
\* byte is not '_'.
C9_DecodeTotal ==
    AnyDecoded =>
        /\ view.iters >= 1
        /\ view.iters <= MAXLEN
        /\ U128IsZero(view.num)
        /\ view.idx \in 0..(MAXLEN - 1)
        /\ view.idx = MAXLEN - view.iters
        /\ ~view.unreachable
        /\ \A i \in (view.idx + 1)..MAXLEN : view.buf[i] \in NameAlphabet
        /\ view.buf[view.idx + 1] # Underscore

C9_Witness ==
    /\ pc = "decoded"
    /\ view.iters = MAXLEN
    /\ view.idx = 0
    /\ U128IsZero(view.num)
    /\ view.buf[1] = Digit9
    /\ view.buf[MAXLEN] = Digit9

\* C10: for an input of 1 to 24 bytes no addition or multiplication of the
\* fold overflows 128 bits, the last multiplication included: the
\* multiplier ends at 37^L, at most 37^24, and the value is below it.
C10_NoOverflow ==
    (pc = "encoded" /\ Len(src) >= 1 /\ Len(src) <= MAXLEN)
    => /\ ~res.ovf
       /\ res.kind = "Ok" =>
             /\ res.mul = Pow37(Len(src))
             /\ U128LessEq(res.mul, Pow37(MAXLEN))
             /\ U128Less(res.val, res.mul)

C10_Witness ==
    /\ pc = "encoded"
    /\ Len(src) = MAXLEN
    /\ res.kind = "Ok"
    /\ ~res.ovf
    /\ res.mul = Pow37(MAXLEN)
    /\ \A i \in 1..Len(src) : src[i] = Digit9

\* The place of a symbol in the order '_' < 'a' < ... < 'z' < '0' < ... < '9'.
SymbolRank(b) ==
    IF b = Underscore THEN 0
    ELSE IF b \in LowerA..LowerZ THEN 1 + (b - LowerA)
    ELSE 27 + (b - Digit0)

\* s before t in short-lex order: shorter first, and among equal lengths
\* the one with the lower symbol at the first difference.
ShortLexLess(s, t) ==
    \/ Len(s) < Len(t)
    \/ /\ Len(s) = Len(t)
       /\ \E i \in 1..Len(s) :
             /\ \A j \in 1..(i - 1) : s[j] = t[j]
             /\ SymbolRank(s[i]) < SymbolRank(t[i])

\* C11: the derived order of two names is the numeric order of their
\* values, which for valid names is short-lex order under the symbol order
\* '_' < 'a' < ... < 'z' < '0' < ... < '9', not the order of the strings.
C11_ShortLexOrder ==
    (pc = "compared" /\ SatisfiesInvariants(src) /\ SatisfiesInvariants(src2))
    => /\ ord \in { "Less", "Equal", "Greater" }
       /\ ord = "Less" <=> ShortLexLess(src, src2)
       /\ ord = "Greater" <=> ShortLexLess(src2, src)
       /\ ord = "Equal" <=> src = src2
       /\ ord = "Less" <=> U128Less(res.val, res2.val)

C11_Witness ==
    /\ pc = "compared"
    /\ src = << LowerZ >>
    /\ src2 = << LowerA, LowerA >>
    /\ SliceLess(src2, src)
    /\ ord = "Less"

====
